---- MODULE Spec2Model ----
(***************************************************************************)
(* Ninja vs Zombies (src/jasper/game.js): the simulation step of the game. *)
(*                                                                         *)
(* Numbers.  The source computes on IEEE doubles.  The model is fixed      *)
(* point: every length, position and velocity is an integer number of      *)
(* hundredths of a pixel (380 px is 38000), and health, damage and all     *)
(* tick countdowns are plain integers.  Energy alone is the double it is   *)
(* in the source: the field energy holds it in hundredths of a point and   *)
(* the field energyErr holds what the double differs from that decimal by, *)
(* so that the double is energy / 100 + energyErr / (100 * 2^54), and      *)
(* every addition rounds as IEEE 754 rounds it (to nearest, ties to even). *)
(* A product with a fraction (friction 0.8, the 0.5 and 0.3 dampings, the  *)
(* camera's 0.1 lerp, the 0.9 shake decay) truncates toward zero at that   *)
(* resolution.  Cosmetic state that nothing reads back (animation frames,  *)
(* a particle's position, colour and size, the portal's pulse, the theme)  *)
(* is left out; a particle is its remaining life.                          *)
(*                                                                         *)
(* Style.  A method that mutates this and the game is an operator from the *)
(* values before to the values after; a method's statements in sequence    *)
(* are operators applied in sequence, each taking the result of the one    *)
(* before as a parameter.                                                  *)
(***************************************************************************)
EXTENDS Integers, Sequences, FiniteSets, TLC

(* ---------------- CONFIG (game.js 7-22), scaled as said above ---------- *)
GRAVITY == 60
PLAYER_SPEED == 500
JUMP_FORCE == -1200
DASH_SPEED == 1500
DASH_DURATION == 10
INVINCIBILITY_DURATION == 30
COMBO_TIMEOUT == 60
SCREEN_WIDTH == 80000
GROUND_Y == 38000
LEVEL_LENGTH == 300000
SPAWN_RATE == 120
MAX_COMBO == 50

(* ---------------- arithmetic helpers ----------------------------------- *)
Abs(a) == IF a < 0 THEN -a ELSE a
Min(a, b) == IF a < b THEN a ELSE b
Max(a, b) == IF a > b THEN a ELSE b

\* a * n / d at the model's resolution, truncated toward zero
Scale(a, n, d) == IF a >= 0 THEN (a * n) \div d ELSE -(((-a) * n) \div d)

\* vx *= CONFIG.FRICTION (0.8)
Friction(v) == Scale(v, 8, 10)

\* The double a / 100 + r / (100 * 2^54) is at least b / 100
AtLeast(a, r, b) == a > b \/ (a = b /\ r >= 0)

\* 2^54 modulo 200 * m, for the spacings m that follow
TwoTo54Mod(m) ==
    CASE m = 1 -> 184
      [] m \in {2, 4, 8, 16} -> 384
      [] m \in {32, 64} -> 3584
      [] OTHER -> 16384

\* The distance between neighbouring doubles around a / 100 + r / (100 * 2^54),
\* in units of 2^-54: 2^-52 from 1 to 2, doubled with every power of 2
Spacing(a, r) ==
    IF AtLeast(a, r, 12800) THEN 512
    ELSE IF AtLeast(a, r, 6400) THEN 256
    ELSE IF AtLeast(a, r, 3200) THEN 128
    ELSE IF AtLeast(a, r, 1600) THEN 64
    ELSE IF AtLeast(a, r, 800) THEN 32
    ELSE IF AtLeast(a, r, 400) THEN 16
    ELSE IF AtLeast(a, r, 200) THEN 8
    ELSE IF AtLeast(a, r, 100) THEN 4
    ELSE IF AtLeast(a, r, 50) THEN 2
    ELSE 1

\* What a sum of doubles whose exact value is a / 100 + r / (100 * 2^54)
\* leaves as its residue: the sum is rounded to the nearest double, a tie to
\* the one with the even mantissa.  `over` is the exact sum modulo two
\* spacings, `low` its excess over the double below.
Residue(a, r) ==
    LET m == Spacing(a, r)
        over == ((a * TwoTo54Mod(m) + r) % (200 * m)) \div 100
        low == over % m
    IN  IF low * 2 > m \/ (low * 2 = m /\ over >= m)
        THEN r + 100 * (m - low)
        ELSE r - 100 * low

\* Utils.clamp
clamp(val, lo, hi) == Max(lo, Min(hi, val))

\* Utils.lerp with t = 0.1, the only t the source passes
lerp(a, b) == a + Scale(b - a, 1, 10)

\* Utils.rectIntersect
rectIntersect(r1, r2) ==
    ~(   r2.x > r1.x + r1.w
      \/ r2.x + r2.w < r1.x
      \/ r2.y > r1.y + r1.h
      \/ r2.y + r2.h < r1.y)

\* JavaScript null (player.attackBox, game.portal)
Null == [null |-> TRUE]

(* ---------------- Entity ------------------------------------------------ *)
\* Entity.getBounds
getBounds(e) == [x |-> e.x, y |-> e.y, w |-> e.w, h |-> e.h]

\* Entity.updatePhysics
updatePhysics(e) ==
    LET vy1 == e.vy + GRAVITY
        vx1 == Friction(e.vx)
        x1  == e.x + vx1
        y1  == e.y + vy1
        hit == y1 + e.h > GROUND_Y
    IN  [e EXCEPT !.vx = vx1,
                  !.x = x1,
                  !.y = IF hit THEN GROUND_Y - e.h ELSE y1,
                  !.vy = IF hit THEN 0 ELSE vy1,
                  !.grounded = hit,
                  !.invincible = IF @ > 0 THEN @ - 1 ELSE @]

\* takeDamage without its first line: the invincibility test is gone
takeDamageUnguarded(e, amount, knockbackX) ==
    LET h1 == e.health - amount
    IN  [ok |-> TRUE,
         e  |-> [e EXCEPT !.health = h1,
                          !.vx = knockbackX,
                          !.vy = -300,
                          !.invincible = INVINCIBILITY_DURATION,
                          !.dead = IF h1 <= 0 THEN TRUE ELSE @]]

\* takeDamage granting the invincibility window only to a survivor
takeDamageNoWindowOnDeath(e, amount, knockbackX) ==
    IF e.invincible > 0
    THEN [ok |-> FALSE, e |-> e]
    ELSE LET h1 == e.health - amount
         IN  [ok |-> TRUE,
              e  |-> [e EXCEPT !.health = h1,
                               !.vx = knockbackX,
                               !.vy = -300,
                               !.invincible =
                                   IF h1 <= 0 THEN @ ELSE INVINCIBILITY_DURATION,
                               !.dead = IF h1 <= 0 THEN TRUE ELSE @]]

\* Entity.takeDamage: the result and the entity after the call
takeDamage(e, amount, knockbackX) ==
    IF e.invincible > 0
    THEN [ok |-> FALSE, e |-> e]
    ELSE LET h1 == e.health - amount
         IN  [ok |-> TRUE,
              e  |-> [e EXCEPT !.health = h1,
                               !.vx = knockbackX,
                               !.vy = -300,
                               !.invincible = INVINCIBILITY_DURATION,
                               !.dead = IF h1 <= 0 THEN TRUE ELSE @]]

(* ---------------- Player ------------------------------------------------ *)
\* new Player(x, y)
NewPlayer(x, y) ==
    [x |-> x, y |-> y, w |-> 3000, h |-> 5000, vx |-> 0, vy |-> 0,
     facing |-> 1, grounded |-> FALSE, dead |-> FALSE, invincible |-> 0,
     maxHealth |-> 100, health |-> 100, maxEnergy |-> 10000, energy |-> 10000,
     energyErr |-> 0,
     combo |-> 0, comboTimer |-> 0, state |-> "idle",
     punchCount |-> 0, punchTimer |-> 0, blocking |-> FALSE,
     dashing |-> FALSE, dashTimer |-> 0,
     attackBox |-> Null, attackTimer |-> 0]

\* the x of a hitbox of the given reach in front of the player
BoxX(p, reach) == IF p.facing > 0 THEN p.x + p.w ELSE p.x - reach

\* Player.punch with the chain held at 1
punchFirstOnly(p) ==
    [p EXCEPT !.punchCount = 1,
              !.punchTimer = 20,
              !.attackTimer = 15,
              !.state = "punch",
              !.attackBox = [x |-> BoxX(p, 4000), y |-> p.y + 1000,
                             w |-> 4000, h |-> 3000,
                             damage |-> 15,
                             knockback |-> p.facing * 500],
              !.vx = Scale(p.vx, 3, 10)]

\* Player.punch
punch(p) ==
    LET n == (p.punchCount % 3) + 1
    IN  [p EXCEPT !.punchCount = n,
                  !.punchTimer = 20,
                  !.attackTimer = 15,
                  !.state = "punch",
                  !.attackBox = [x |-> BoxX(p, 4000), y |-> p.y + 1000,
                                 w |-> 4000, h |-> 3000,
                                 damage |-> 10 + n * 5,
                                 knockback |-> p.facing * 500],
                  !.vx = Scale(p.vx, 3, 10)]

\* Player.kick
kick(p) ==
    [p EXCEPT !.attackTimer = 25,
              !.state = "kick",
              !.attackBox = [x |-> BoxX(p, 5500), y |-> p.y + 1500,
                             w |-> 5500, h |-> 2500,
                             damage |-> 20,
                             knockback |-> p.facing * 800]]

\* Player.jumpKick
jumpKick(p) ==
    [p EXCEPT !.attackTimer = 20,
              !.state = "kick",
              !.attackBox = [x |-> BoxX(p, 5000), y |-> p.y + 1000,
                             w |-> 5000, h |-> 3500,
                             damage |-> 15,
                             knockback |-> p.facing * 600]]

\* Player.special, the player's part (the game's part is in PlayerStep)
special(p) ==
    [p EXCEPT !.energy = @ - 3000,
              !.energyErr = Residue(p.energy - 3000, @),
              !.attackTimer = 30,
              !.state = "punch",
              !.attackBox = [x |-> IF p.facing > 0 THEN p.x + p.w - 2000
                                                   ELSE p.x - 8000 + 2000,
                             y |-> p.y - 1000,
                             w |-> 8000, h |-> 7000,
                             damage |-> 40,
                             knockback |-> p.facing * 1200]]

\* Player.addCombo, line 576: Math.min(this.energy + 5, this.maxEnergy)
Refund(p) ==
    IF AtLeast(p.energy + 500, Residue(p.energy + 500, p.energyErr),
               p.maxEnergy)
    THEN [p EXCEPT !.energy = p.maxEnergy, !.energyErr = 0]
    ELSE [p EXCEPT !.energy = @ + 500,
                   !.energyErr = Residue(p.energy + 500, @)]

\* Player.addCombo without Math.min(this.combo, CONFIG.MAX_COMBO)
addComboUncapped(p) ==
    [Refund(p) EXCEPT !.combo = @ + 1,
                      !.comboTimer = COMBO_TIMEOUT]

\* Player.addCombo
addCombo(p) ==
    [Refund(p) EXCEPT !.combo = Min(@ + 1, MAX_COMBO),
                      !.comboTimer = COMBO_TIMEOUT]

\* n particles of the given life (new Particle(...) pushed n times)
Burst(n, life) == [i \in 1..n |-> life]

\* Player.update, lines 390-399: the countdowns and the energy regeneration
\* 0.2 is the double 0.2 + 20 / (100 * 2^54)
Regenerate(p) ==
    IF AtLeast(p.energy, p.energyErr, p.maxEnergy) THEN p
    ELSE [p EXCEPT !.energy = @ + 20,
                   !.energyErr = Residue(p.energy + 20, @ + 20)]

PlayerTimers(p) ==
    Regenerate(
      [p EXCEPT !.comboTimer = IF @ > 0 THEN @ - 1 ELSE @,
                !.combo = IF p.comboTimer > 0 THEN @ ELSE 0,
                !.punchTimer = IF @ > 0 THEN @ - 1 ELSE @,
                !.attackTimer = IF @ > 0 THEN @ - 1 ELSE @,
                !.dashTimer = IF @ > 0 THEN @ - 1 ELSE @])

\* Player.update, lines 402-409: a tick spent dashing
PlayerDashing(p) ==
    updatePhysics([p EXCEPT !.vx = p.facing * DASH_SPEED,
                            !.dashing = IF p.dashTimer <= 0 THEN FALSE ELSE @])

\* Player.update, lines 413-418: a tick spent blocking
PlayerBlocking(p) ==
    updatePhysics([p EXCEPT !.vx = Scale(@, 5, 10), !.state = "block"])

\* What Player.update has done so far in a tick: the player, and the names
\* of the methods and cues fired
Did(p, fired) == [p |-> p, fired |-> fired]

\* Player.update, lines 421-432: movement
MidAttack(p) == p.state = "punch" \/ p.state = "kick"

PlayerMove(r, in) ==
    IF Abs(in.axis) * 10 > 1
    THEN Did([r.p EXCEPT
                 !.vx = IF ~r.p.dashing THEN in.axis * PLAYER_SPEED ELSE @,
                 !.facing = IF in.axis > 0 THEN 1 ELSE -1,
                 !.state = IF r.p.grounded /\ ~MidAttack(r.p) THEN "walk" ELSE @],
             r.fired)
    ELSE IF r.p.grounded /\ ~MidAttack(r.p)
         THEN Did([r.p EXCEPT !.state = "idle"], r.fired)
         ELSE r

\* Player.update, lines 435-440: jump
JumpFires(p, in) == in.jump /\ p.grounded /\ ~MidAttack(p)

PlayerJump(r, in) ==
    IF JumpFires(r.p, in)
    THEN Did([r.p EXCEPT !.vy = JUMP_FORCE, !.grounded = FALSE, !.state = "jump"],
             r.fired \cup {"jump"})
    ELSE r

\* Player.update, lines 443-448: dash
DashFires(p, in) == in.dash /\ ~p.dashing /\ p.dashTimer <= 0

PlayerDash(r, in) ==
    IF DashFires(r.p, in)
    THEN Did([r.p EXCEPT !.dashing = TRUE,
                         !.dashTimer = DASH_DURATION,
                         !.invincible = DASH_DURATION],
             r.fired \cup {"dash"})
    ELSE r

\* the kick test without the attackTimer gate
KickFiresUngated(p, in) == in.kick /\ p.grounded

\* Player.update, lines 451-468: the four attacks, each tested in turn
PunchFires(p, in) == in.attack /\ p.attackTimer <= 0
KickFires(p, in) == in.kick /\ p.grounded /\ p.attackTimer <= 0
SpecialFires(p, in) ==
    in.special /\ AtLeast(p.energy, p.energyErr, 3000) /\ p.attackTimer <= 0
JumpKickFires(p, in) == in.kick /\ ~p.grounded /\ p.attackTimer <= 0

PlayerPunch(r, in) ==
    IF PunchFires(r.p, in) THEN Did(punch(r.p), r.fired \cup {"punch"}) ELSE r

PlayerKick(r, in) ==
    IF KickFires(r.p, in) THEN Did(kick(r.p), r.fired \cup {"kick"}) ELSE r

PlayerSpecial(r, in) ==
    IF SpecialFires(r.p, in) THEN Did(special(r.p), r.fired \cup {"special"})
                             ELSE r

PlayerJumpKick(r, in) ==
    IF JumpKickFires(r.p, in) THEN Did(jumpKick(r.p), r.fired \cup {"jumpKick"})
                              ELSE r

\* Player.update, lines 471-475: clear the attack box, then the physics
PlayerFinish(r) ==
    Did(updatePhysics([r.p EXCEPT !.attackBox =
                          IF r.p.attackTimer <= 0 THEN Null ELSE @]),
        r.fired)

\* Player.update, lines 421-476: a tick neither dashing nor blocking
PlayerActs(p, in) ==
    PlayerFinish(
      PlayerJumpKick(
        PlayerSpecial(
          PlayerKick(
            PlayerPunch(
              PlayerDash(
                PlayerJump(
                  PlayerMove(Did(p, {}), in),
                  in),
                in),
              in),
            in),
          in),
        in))

\* the blocking tick without the return at line 417
PlayerBlockThenAct(p, in) ==
    IF p.blocking THEN PlayerActs(PlayerBlocking(p), in) ELSE PlayerActs(p, in)

\* Player.update, lines 412-418: the blocking flag, and the tick it decides
PlayerBlockOrAct(p, in) ==
    IF p.blocking THEN Did(PlayerBlocking(p), {}) ELSE PlayerActs(p, in)

\* Player.update, lines 402-476, the timers done
PlayerAfterTimers(p, in) ==
    IF p.dashing
    THEN Did(PlayerDashing(p), {})
    ELSE PlayerBlockOrAct([p EXCEPT !.blocking = in.block /\ p.grounded], in)

\* Player.update: the player after the tick and what the tick fired
PlayerUpdate(p, in) == PlayerAfterTimers(PlayerTimers(p), in)

(* ---------------- Zombie ------------------------------------------------ *)
\* Zombie.setupType: the fields a type overrides (type 'boss' has no case)
TypeFields(z) ==
    CASE z.type = "basic" ->
           [z EXCEPT !.maxHealth = 30, !.speed = 80, !.damage = 10]
      [] z.type = "fast" ->
           [z EXCEPT !.maxHealth = 20, !.speed = 250, !.damage = 8,
                     !.w = 2500, !.h = 4000, !.y = @ + 1000]
      [] z.type = "tank" ->
           [z EXCEPT !.maxHealth = 80, !.speed = 40, !.damage = 20,
                     !.w = 4000, !.h = 5500]
      [] z.type = "ranged" ->
           [z EXCEPT !.maxHealth = 25, !.speed = 100, !.damage = 15,
                     !.attackRange = 15000]
      [] OTHER -> z

FullHealth(z) == [z EXCEPT !.health = z.maxHealth]

setupType(z) == FullHealth(TypeFields(z))

\* new Zombie(x, y, type): Entity's constructor, setupType, then the
\* constructor's own assignments, in the order the source makes them.  id is
\* the object's identity (the model's name for the JavaScript reference).
NewZombie(id, x, y, type) ==
    [setupType([id |-> id, type |-> type,
                x |-> x, y |-> y, w |-> 3000, h |-> 5000, vx |-> 0, vy |-> 0,
                facing |-> 1, grounded |-> FALSE, dead |-> FALSE,
                invincible |-> 0,
                maxHealth |-> 0, health |-> 0, speed |-> 0, damage |-> 0,
                attackCooldown |-> 0, detectRange |-> 0, attackRange |-> 0,
                state |-> "idle", phase |-> 0, specialCooldown |-> 0])
     EXCEPT !.attackCooldown = 0,
            !.detectRange = 20000,
            !.attackRange = 4000,
            !.state = "idle"]

\* new Boss(x, y)
NewBoss(id, x, y) ==
    [NewZombie(id, x, y, "boss") EXCEPT !.w = 6000, !.h = 8000,
                                        !.maxHealth = 300, !.health = 300,
                                        !.speed = 60, !.damage = 25,
                                        !.phase = 1, !.specialCooldown = 0]

\* new Projectile(x, y, vx, vy, damage, owner)
NewProjectile(x, y, vx, vy, damage, owner) ==
    [x |-> x, y |-> y, vx |-> vx, vy |-> vy, damage |-> damage,
     owner |-> owner, w |-> 1000, h |-> 600, dead |-> FALSE]

\* One takeDamage call as the tick's call log keeps it
Call(who, id, before, r) ==
    [who |-> who, id |-> id, ok |-> r.ok, before |-> before, after |-> r.e]

\* whether the latest takeDamage call of the tick returned true
LastOk(g) == g.calls[Len(g.calls)].ok

\* player.takeDamage(amount, knockbackX) called on the game's player.  g is
\* the game as an update threads it: its fields, and the tick's logs (calls,
\* fired).
Damaged(g, r) ==
    [g EXCEPT !.player = r.e,
              !.calls = Append(@, Call("player", 0, g.player, r))]

HitPlayer(g, amount, knockbackX) ==
    Damaged(g, takeDamage(g.player, amount, knockbackX))

\* Zombie.takeDamage
Hurt(r) == IF r.ok THEN [ok |-> TRUE, e |-> [r.e EXCEPT !.state = "hurt"]] ELSE r

ZombieTakeDamage(z, amount, knockbackX) == Hurt(takeDamage(z, amount, knockbackX))

\* the damage a blocking player takes, without the reduction
BlockedDamageFull(damage) == damage

\* Math.floor(damage * 0.3)
BlockedDamage(damage) == (damage * 3) \div 10

\* Zombie.attack, lines 768-775: the hitbox
AttackBoxOf(z) ==
    [x |-> IF z.facing > 0 THEN z.x + z.w ELSE z.x - 3000,
     y |-> z.y, w |-> 3000, h |-> 4000]

\* Zombie.attack, lines 782-796: what a hit that landed does to the game
AttackLanded(g) ==
    IF LastOk(g)
    THEN [g EXCEPT !.screenShake = 500,
                   !.particles = @ \o Burst(5, 20),
                   !.fired = @ \cup {"hit"}]
    ELSE g

\* Zombie.attack, lines 776-781: the damage, less when the player blocks
AttackDamage(z, g) ==
    IF g.player.blocking
    THEN HitPlayer([g EXCEPT !.fired = @ \cup {"block"}],
                   BlockedDamage(z.damage), z.facing * 300)
    ELSE HitPlayer(g, z.damage, z.facing * 300)

\* Zombie.attack
ZombieAttack(z, g) ==
    [e |-> [z EXCEPT !.attackCooldown = 60, !.state = "attack"],
     g |-> IF rectIntersect(AttackBoxOf(z), getBounds(g.player))
           THEN AttackLanded(AttackDamage(z, g))
           ELSE g]

\* Zombie.rangedAttack
rangedAttack(z, g) ==
    [e |-> [z EXCEPT !.attackCooldown = 90, !.state = "attack"],
     g |-> [g EXCEPT !.projectiles =
                        Append(@, NewProjectile(z.x + z.w \div 2, z.y + 1000,
                                                z.facing * 400, 0, z.damage,
                                                "enemy")),
                     !.fired = @ \cup {"rangedAttack"}]]

\* Zombie.update, lines 746-747 and 750-751
ZombieRest(z, g) ==
    [e |-> [z EXCEPT !.vx = Scale(@, 5, 10), !.state = "idle"], g |-> g]

\* Zombie.update, lines 739-741
ZombieWalk(z, f, g) ==
    [e |-> [z EXCEPT !.facing = f, !.vx = f * z.speed, !.state = "walk"],
     g |-> g]

\* Zombie.update, lines 736-752: the AI branch
ZombieAI(z, distToPlayer, g) ==
    IF Abs(distToPlayer) < z.detectRange
    THEN IF Abs(distToPlayer) > z.attackRange
         THEN ZombieWalk(z, IF distToPlayer > 0 THEN 1 ELSE -1, g)
         ELSE IF z.attackCooldown <= 0
              THEN ZombieAttack(z, g)
              ELSE ZombieRest(z, g)
    ELSE ZombieRest(z, g)

\* Zombie.update, lines 755-757: the ranged zombie's shot
RangedFires(z, absDist) ==
    z.type = "ranged" /\ absDist < z.attackRange /\ z.attackCooldown <= 0

ZombieRanged(r, absDist) ==
    IF RangedFires(r.e, absDist) THEN rangedAttack(r.e, r.g) ELSE r

\* Zombie.update, line 759
ZombiePhysics(r) == [e |-> updatePhysics(r.e), g |-> r.g]

\* Zombie.update, lines 732-760, the cooldown counted down
ZombieThink(z, distToPlayer, g) ==
    ZombiePhysics(ZombieRanged(ZombieAI(z, distToPlayer, g), Abs(distToPlayer)))

\* Zombie.update
ZombieUpdate(z, g) ==
    IF z.dead THEN [e |-> z, g |-> g]
    ELSE ZombieThink([z EXCEPT !.attackCooldown = IF @ > 0 THEN @ - 1 ELSE @],
                     g.player.x - z.x, g)

(* ---------------- Boss -------------------------------------------------- *)
\* the phase transition without the test of the health ratio
BossPhaseAnyHealth(z) ==
    IF z.phase = 1
    THEN [z EXCEPT !.phase = 2, !.speed = 100, !.attackCooldown = 0]
    ELSE z

\* Boss.update without the phase transition
BossPhaseNever(z) == z

\* Boss.update, lines 904-909: the phase transition
BossPhase(z) ==
    IF z.health * 2 < z.maxHealth /\ z.phase = 1
    THEN [z EXCEPT !.phase = 2, !.speed = 100, !.attackCooldown = 0]
    ELSE z

\* Boss.groundSmash, lines 925-930: the area damage
SmashDamage(z, g) ==
    IF Abs(g.player.x - z.x) < 12000
    THEN [HitPlayer(g, 20, (IF g.player.x > z.x THEN 1 ELSE -1) * 800)
             EXCEPT !.screenShake = 1500, !.fired = @ \cup {"hit"}]
    ELSE g

\* Boss.groundSmash, lines 933-943: the particles
SmashParticles(g) ==
    [g EXCEPT !.particles = @ \o Burst(20, 40),
              !.fired = @ \cup {"groundSmash"}]

\* Boss.groundSmash, lines 946-949: in phase 2 the two minions are pushed
\* onto game.enemies, the array this.enemies refers to at that moment
SmashMinions(z, g) ==
    IF z.phase = 2
    THEN [g EXCEPT !.enemies = @ \o
                      <<NewZombie(g.nextId, z.x - 5000,
                                  GROUND_Y - 5000, "basic"),
                        NewZombie(g.nextId + 1, z.x + z.w + 5000,
                                  GROUND_Y - 5000, "basic")>>,
                   !.nextId = @ + 2,
                   !.fired = @ \cup {"minions"}]
    ELSE g

\* Boss.groundSmash
groundSmash(z, g) ==
    [e |-> [z EXCEPT !.specialCooldown = 180],
     g |-> SmashMinions(z, SmashParticles(SmashDamage(z, g)))]

\* Boss.update, lines 916-918
BossSpecial(r) ==
    IF r.e.specialCooldown <= 0 /\ Abs(r.g.player.x - r.e.x) < 10000
    THEN groundSmash(r.e, r.g)
    ELSE r

\* Boss.update, line 911
BossCooldown(z) == [z EXCEPT !.specialCooldown = IF @ > 0 THEN @ - 1 ELSE @]

\* Boss.update
BossUpdate(z, g) ==
    IF z.dead THEN [e |-> z, g |-> g]
    ELSE BossSpecial(ZombieUpdate(BossCooldown(BossPhase(z)), g))

\* e.update(player, game), dispatched on the object's class
EnemyUpdate(e, g) == IF e.type = "boss" THEN BossUpdate(e, g) ELSE ZombieUpdate(e, g)

(* ---------------- Game: state ------------------------------------------- *)
VARIABLES
    state,            \* game.state: menu, playing, paused, gameover, complete
    level, score, kills, maxCombo, rank,
    spawnTimer, enemiesToSpawn, enemiesSpawned, bossSpawned,
    screenShake, cameraX,
    startTime,        \* game.startTime, in milliseconds
    elapsedTime,      \* game.elapsedTime, kept in milliseconds
    portal,           \* Null or the Portal
    player,
    enemies,          \* sequence of Zombie and Boss objects
    projectiles, particles,
    input,            \* InputHandler: joystick.x and the six buttons
    nextId,           \* the identity the next enemy object gets
    calls,            \* the takeDamage calls of the latest step, in order
    fired,            \* the methods and cues the latest step fired
    struck,           \* the enemies the player's attackBox has damaged
    ticks, keyEvents, \* how many frames ran, how many key events arrived
    probe             \* a Utils function called on its own: operands, result

gameVars == <<state, level, score, kills, maxCombo, rank, spawnTimer,
              enemiesToSpawn, enemiesSpawned, bossSpawned, screenShake,
              cameraX, portal, player, enemies, projectiles, particles,
              startTime, elapsedTime>>
vars == <<gameVars, input, nextId, calls, fired, struck, ticks, keyEvents,
          probe>>

\* the Game object as an update finds it, the tick's logs empty
G == [state |-> state, level |-> level, score |-> score, kills |-> kills,
      maxCombo |-> maxCombo, rank |-> rank, spawnTimer |-> spawnTimer,
      enemiesToSpawn |-> enemiesToSpawn, enemiesSpawned |-> enemiesSpawned,
      bossSpawned |-> bossSpawned, screenShake |-> screenShake,
      cameraX |-> cameraX, portal |-> portal, player |-> player,
      enemies |-> enemies, projectiles |-> projectiles,
      particles |-> particles, nextId |-> nextId,
      startTime |-> startTime, elapsedTime |-> elapsedTime,
      calls |-> <<>>, fired |-> {}, struck |-> struck]

\* this.canvas.width (Game.resize): the window's width, taken to be the
\* nominal screen width
CanvasWidth == SCREEN_WIDTH

\* InputHandler's constructor
NoInput == [axis |-> 0, jump |-> FALSE, attack |-> FALSE, kick |-> FALSE,
            special |-> FALSE, block |-> FALSE, dash |-> FALSE]

(* ---------------- Game.update, step by step ------------------------------ *)
\* line 1268: the elapsed time; now is what Date.now() returns
Elapsed(g, now) == [g EXCEPT !.elapsedTime = now - g.startTime]

\* lines 1271-1272: screen shake decay
ShakeFloor(g) == IF g.screenShake < 50 THEN [g EXCEPT !.screenShake = 0] ELSE g

ShakeDecay(g) ==
    ShakeFloor([g EXCEPT !.screenShake = IF @ > 0 THEN Scale(@, 9, 10) ELSE @])

\* Player.special, the game's part (lines 547-561): shake and particles
SpecialEffects(g, r) ==
    IF "special" \in r.fired
    THEN [g EXCEPT !.screenShake = 1000, !.particles = @ \o Burst(10, 30)]
    ELSE g

\* the four attacks of Player.update, each of which assigns a new object
\* to this.attackBox
AttackNames == {"punch", "kick", "special", "jumpKick"}

\* the enemies the attackBox has damaged, after a player update: none when
\* the update made a new attackBox or left none
StruckBy(g, r) ==
    IF r.fired \cap AttackNames # {} \/ r.p.attackBox = Null
    THEN <<>> ELSE g.struck

\* line 1275: this.player.update(this.input, this)
PlayerDone(g, r) ==
    [SpecialEffects(g, r) EXCEPT !.player = r.p, !.fired = @ \cup r.fired,
                                 !.struck = StruckBy(g, r)]

PlayerStep(g, in) == PlayerDone(g, PlayerUpdate(g.player, in))

\* lines 1278-1280: the camera
CameraStep(g) ==
    [g EXCEPT !.cameraX =
        clamp(lerp(@, g.player.x - CanvasWidth \div 3),
              0, LEVEL_LENGTH - CanvasWidth)]

\* the enemy types spawnEnemy draws from at a level
FirstTypes == {"basic", "fast"}

\* the pool without the level gates
SpawnTypesUngated(lv) == FirstTypes \cup {"tank", "ranged"}

SpawnTypes(lv) ==
    FirstTypes \cup (IF lv > 1 THEN {"tank"} ELSE {})
               \cup (IF lv > 2 THEN {"ranged"} ELSE {})

\* the x spawnEnemy places the enemy at; rnd.off is Math.random() * 200
SpawnX(px, rnd) ==
    IF rnd.right THEN px + 40000 + rnd.off
                 ELSE Max(5000, px - 40000 - rnd.off)

\* Game.spawnEnemy without its test of the quota
spawnEnemyUnguarded(g, rnd) ==
    [g EXCEPT !.enemies = Append(@, NewZombie(g.nextId,
                                              SpawnX(g.player.x, rnd),
                                              GROUND_Y - 5000, rnd.type)),
              !.nextId = @ + 1,
              !.enemiesSpawned = @ + 1,
              !.fired = @ \cup {"spawnEnemy"}]

\* Game.spawnEnemy; rnd holds the three random draws
spawnEnemy(g, rnd) ==
    IF g.enemiesSpawned >= g.enemiesToSpawn THEN g
    ELSE [g EXCEPT !.enemies = Append(@, NewZombie(g.nextId,
                                                   SpawnX(g.player.x, rnd),
                                                   GROUND_Y - 5000, rnd.type)),
                   !.nextId = @ + 1,
                   !.enemiesSpawned = @ + 1,
                   !.fired = @ \cup {"spawnEnemy"}]

\* lines 1283-1286, the test
SpawnDue(g) == g.spawnTimer <= 0 /\ g.enemiesSpawned < g.enemiesToSpawn

\* lines 1283-1286: the spawn timer (post-decremented) and the spawn
SpawnStep(g, rnd) ==
    IF SpawnDue(g)
    THEN [spawnEnemy(g, rnd) EXCEPT
             !.spawnTimer = SPAWN_RATE - Min(g.level * 10, 60)]
    ELSE [g EXCEPT !.spawnTimer = @ - 1]

\* Game.spawnBoss
spawnBoss(g) ==
    [g EXCEPT !.bossSpawned = TRUE,
              !.enemies = Append(@, NewBoss(g.nextId, g.player.x + 50000,
                                            GROUND_Y - 8000)),
              !.nextId = @ + 1,
              !.fired = @ \cup {"spawnBoss"}]

\* the boss test without this.level % 3 === 0
BossDueAnyLevel(g) ==
    /\ g.enemiesSpawned >= g.enemiesToSpawn
    /\ ~g.bossSpawned
    /\ Len(g.enemies) = 0

\* lines 1289-1293: the boss
BossDue(g) ==
    /\ g.enemiesSpawned >= g.enemiesToSpawn
    /\ ~g.bossSpawned
    /\ g.level % 3 = 0
    /\ Len(g.enemies) = 0

BossStep(g) == IF BossDue(g) THEN spawnBoss(g) ELSE g

\* new Portal(x, y)
NewPortal(x, y) == [x |-> x, y |-> y, w |-> 6000, h |-> 8000, active |-> FALSE]

\* the portal test without this.enemies.length === 0
PortalDueFieldUnchecked(g) ==
    /\ g.enemiesSpawned >= g.enemiesToSpawn
    /\ g.portal = Null
    /\ ~g.bossSpawned

\* lines 1296-1299, the test
PortalDue(g) ==
    /\ g.enemiesSpawned >= g.enemiesToSpawn
    /\ Len(g.enemies) = 0
    /\ g.portal = Null
    /\ ~g.bossSpawned

\* lines 1296-1299: the portal
PortalStep(g) ==
    IF PortalDue(g)
    THEN [g EXCEPT !.portal = NewPortal(LEVEL_LENGTH - 15000, GROUND_Y - 8000),
                   !.fired = @ \cup {"portal"}]
    ELSE g

\* the rank with the thresholds themselves left out
calculateRankAbove(g) ==
    IF g.score * 10 > 15 * 2000 * g.level THEN "S"
    ELSE IF g.score * 10 > 12 * 2000 * g.level THEN "A"
    ELSE IF g.score * 10 > 8 * 2000 * g.level THEN "B"
    ELSE "C"

\* Game.calculateRank: the ratio score / (2000 * level) against 1.5, 1.2, 0.8.
\* score and level are integers and the division is rounded to the nearest
\* double: at 12 * 2000 * level = 10 * score the quotient is the double the
\* literal 1.2 is, and a score 50 short of it gives a quotient many doubles
\* below, so the comparison of the doubles is the comparison of the integers
calculateRank(g) ==
    IF g.score * 10 >= 15 * 2000 * g.level THEN "S"
    ELSE IF g.score * 10 >= 12 * 2000 * g.level THEN "A"
    ELSE IF g.score * 10 >= 8 * 2000 * g.level THEN "B"
    ELSE "C"

\* Game.levelComplete
levelComplete(g) ==
    [g EXCEPT !.state = "complete",
              !.rank = calculateRank(g),
              !.fired = @ \cup {"levelComplete"}]

\* lines 1302-1309: portal entry
PortalEntry(g) ==
    IF g.portal # Null /\ rectIntersect(getBounds(g.player), g.portal)
    THEN levelComplete(g)
    ELSE g

\* lines 1319-1336: what a hit that landed on an enemy does to the game, the
\* combo already added
HitScored(g) ==
    [g EXCEPT !.screenShake = 300,
              !.score = @ + 100 * g.player.combo,
              !.maxCombo = Max(@, g.player.combo),
              !.particles = @ \o Burst(8, 25),
              !.fired = @ \cup {"zombieHit"}]

\* line 1318: e.takeDamage(...) and its consequences; e0 is e before the call
EnemyDamaged(e0, r, g) ==
    [e |-> r.e,
     g |-> IF r.ok
           THEN HitScored([g EXCEPT !.player = addCombo(@),
                                    !.calls = Append(@, Call("enemy", e0.id, e0, r)),
                                    !.struck = Append(@, e0.id)])
           ELSE [g EXCEPT !.calls = Append(@, Call("enemy", e0.id, e0, r))]]

\* lines 1317-1338: the player's attack box against one enemy just updated
AttackHit(u) ==
    IF u.g.player.attackBox # Null
       /\ rectIntersect(u.g.player.attackBox, getBounds(u.e))
    THEN EnemyDamaged(u.e,
                      ZombieTakeDamage(u.e, u.g.player.attackBox.damage,
                                       u.g.player.attackBox.knockback),
                      u.g)
    ELSE u

\* lines 1342-1358: a dead enemy leaves the collection and is counted
CountKill(g) ==
    [g EXCEPT !.kills = @ + 1,
              !.score = @ + 50,
              !.particles = @ \o Burst(15, 40)]

\* the filter callback returning true: the element goes to the new array
Keep(kept, a) == [kept |-> Append(kept, a.e), g |-> a.g]

\* the callback removing and counting at once an enemy its hit test killed
EnemyVisitEager(l, i) ==
    IF ~l.g.enemies[i].dead
       /\ ~AttackHit(EnemyUpdate(l.g.enemies[i], l.g)).e.dead
    THEN Keep(l.kept, AttackHit(EnemyUpdate(l.g.enemies[i], l.g)))
    ELSE [kept |-> l.kept,
          g |-> CountKill(AttackHit(EnemyUpdate(l.g.enemies[i], l.g)).g)]

\* lines 1312-1360: the callback of this.enemies.filter on element i.  l.g is
\* the game, l.g.enemies the array being filtered, l.kept the array filter is
\* building.
EnemyVisit(l, i) ==
    IF ~l.g.enemies[i].dead
    THEN Keep(l.kept, AttackHit(EnemyUpdate(l.g.enemies[i], l.g)))
    ELSE [kept |-> l.kept, g |-> CountKill(l.g)]

\* Array.prototype.filter: the callback runs on the n elements the array had
\* when filter was called; elements the callback appends are not visited
RECURSIVE EnemyLoop(_, _, _)
EnemyLoop(i, n, l) ==
    IF i > n THEN l ELSE EnemyLoop(i + 1, n, EnemyVisit(l, i))

\* line 1312: this.enemies = (the array filter returns)
EnemiesAssign(l) == [l.g EXCEPT !.enemies = l.kept]

EnemiesStep(g) ==
    EnemiesAssign(EnemyLoop(1, Len(g.enemies), [kept |-> <<>>, g |-> g]))

\* Projectile.update
ProjectileUpdate(p) ==
    [p EXCEPT !.x = @ + p.vx, !.y = @ + p.vy,
              !.vy = IF p.owner = "enemy" THEN @ + 10 ELSE @]

\* lines 1368-1371: a projectile that reached the player
ProjectileHit(g) ==
    IF LastOk(g) THEN [g EXCEPT !.fired = @ \cup {"hit"}] ELSE g

\* lines 1363-1376: the callback of this.projectiles.filter on a projectile
\* already updated
ProjectileVisit(l, p) ==
    IF p.owner = "enemy" /\ rectIntersect(getBounds(p), getBounds(l.g.player))
    THEN [kept |-> l.kept,
          g |-> ProjectileHit(HitPlayer(l.g, p.damage,
                                        IF p.vx > 0 THEN 300 ELSE -300))]
    ELSE [kept |-> IF p.x > l.g.cameraX - 10000
                      /\ p.x < l.g.cameraX + CanvasWidth + 10000
                   THEN Append(l.kept, p) ELSE l.kept,
          g |-> l.g]

RECURSIVE ProjectileLoop(_, _, _)
ProjectileLoop(i, n, l) ==
    IF i > n THEN l
    ELSE ProjectileLoop(i + 1, n,
            ProjectileVisit(l, ProjectileUpdate(l.g.projectiles[i])))

ProjectilesAssign(l) == [l.g EXCEPT !.projectiles = l.kept]

ProjectilesStep(g) ==
    ProjectilesAssign(
        ProjectileLoop(1, Len(g.projectiles), [kept |-> <<>>, g |-> g]))

\* lines 1379-1382: particles age and expire
Alive(life) == life > 1

ParticlesStep(g) ==
    [g EXCEPT !.particles =
        [i \in 1..Len(SelectSeq(@, Alive)) |-> SelectSeq(@, Alive)[i] - 1]]

\* Game.gameOver
gameOver(g) == [g EXCEPT !.state = "gameover", !.fired = @ \cup {"gameOver"}]

\* the end of the update without the test of player.dead
GameOverUnchecked(g) == g

\* the end of the update with the test on the player's health being short
\* of full
GameOverOnHurt(g) ==
    IF g.player.health < g.player.maxHealth THEN gameOver(g) ELSE g

\* lines 1385-1387
GameOverCheck(g) == IF g.player.dead THEN gameOver(g) ELSE g

\* Game.update while playing, from the shake decay to the game-over check
GameUpdate(g, in, rnd, now) ==
    GameOverCheck(
      ParticlesStep(
        ProjectilesStep(
          EnemiesStep(
            PortalEntry(
              PortalStep(
                BossStep(
                  SpawnStep(
                    CameraStep(
                      PlayerStep(ShakeDecay(Elapsed(g, now)), in)),
                    rnd))))))))

\* Game.update without the return at line 1266
updateAnyState(g, in, rnd, now) == GameUpdate(g, in, rnd, now)

\* Game.update
update(g, in, rnd, now) ==
    IF g.state # "playing" THEN g ELSE GameUpdate(g, in, rnd, now)

(* ---------------- bounds of the model ------------------------------------ *)
\* updates per behaviour (from the menu, in the boss fight, at a level's
\* end), key events per behaviour
MaxTicks == 18
BossTicks == 12
LevelTicks == 12
MaxKeyEvents == 3

\* the values Math.random() * 200 is drawn from in spawnEnemy
SpawnOffsets == {0, 19999}

\* the random draws of one spawnEnemy call at a level
SpawnChoices(lv) ==
    [type : SpawnTypes(lv), right : BOOLEAN, off : SpawnOffsets]

NoDraw == [type |-> "basic", right |-> TRUE, off |-> 0]

\* an update that does not spawn draws nothing
NoDraws == {NoDraw}

(* ---------------- actions ------------------------------------------------ *)
\* Date.now() when `frames` frames have run since the behaviour's first
\* state, whose time is taken as 0: requestAnimationFrame runs a frame every
\* FrameMs milliseconds
FrameMs == 16
DateNow(frames) == FrameMs * frames

\* new Player(100, CONFIG.GROUND_Y - 50), as reset makes it
FreshPlayer == NewPlayer(10000, GROUND_Y - 5000)

\* Game.reset: the fields it assigns
Reset ==
    /\ player' = FreshPlayer
    /\ enemies' = <<>>
    /\ projectiles' = <<>>
    /\ particles' = <<>>
    /\ portal' = Null
    /\ cameraX' = 0
    /\ level' = 1
    /\ score' = 0
    /\ kills' = 0
    /\ maxCombo' = 0
    /\ spawnTimer' = 0
    /\ enemiesToSpawn' = 10
    /\ enemiesSpawned' = 0
    /\ bossSpawned' = FALSE
    /\ screenShake' = 0
    /\ elapsedTime' = 0
    /\ calls' = <<>>
    /\ fired' = {"reset"}
    /\ struck' = <<>>

\* Game.startGame, lines 1154-1156: reset, then the state and the start time
\* (reset's startTime = 0 is overwritten at once)
Started ==
    /\ Reset
    /\ state' = "playing"
    /\ startTime' = DateNow(ticks)
    /\ UNCHANGED <<rank, input, nextId, ticks, keyEvents, probe>>

\* Game.startGame, from the main menu's three mode buttons
StartGame == state = "menu" /\ Started

\* Game.restart, from the game-over screen's retry button
Restart == state = "gameover" /\ Started

\* the fields an assignment to this.state alone leaves as they are
StateOnly ==
    UNCHANGED <<level, score, kills, maxCombo, rank, spawnTimer,
                enemiesToSpawn, enemiesSpawned, bossSpawned, screenShake,
                cameraX, portal, player, enemies, projectiles, particles,
                elapsedTime, input, nextId, calls, fired, struck, ticks,
                probe>>

\* Game.showMenu, from the pause, game-over and level-complete screens
ShowMenu ==
    /\ state = "paused" \/ state = "gameover" \/ state = "complete"
    /\ state' = "menu"
    /\ startTime' = startTime
    /\ keyEvents' = keyEvents
    /\ StateOnly

\* Game.pause, from the pause button: one of the user's inputs
Pause ==
    /\ state = "playing"
    /\ keyEvents < MaxKeyEvents
    /\ keyEvents' = keyEvents + 1
    /\ state' = "paused"
    /\ startTime' = startTime
    /\ StateOnly

\* resume without the start time moved
ResumeSameStart ==
    /\ state = "paused"
    /\ state' = "playing"
    /\ startTime' = startTime
    /\ keyEvents' = keyEvents
    /\ StateOnly

\* Game.resume, from the pause screen's resume button
Resume ==
    /\ state = "paused"
    /\ state' = "playing"
    /\ startTime' = DateNow(ticks) - elapsedTime
    /\ keyEvents' = keyEvents
    /\ StateOnly

\* the partial heal without Math.min
HealedUncapped(p) == [p EXCEPT !.health = @ + 30]

\* Game.nextLevel, line 1215: the partial heal
Healed(p) == [p EXCEPT !.health = Min(@ + 30, p.maxHealth)]

\* nextLevel with the quota taken from the level just ended
NextLevelOldQuota ==
    /\ state = "complete"
    /\ level' = level + 1
    /\ player' = Healed([player EXCEPT !.x = 10000])
    /\ enemies' = <<>>
    /\ projectiles' = <<>>
    /\ particles' = <<>>
    /\ portal' = Null
    /\ enemiesSpawned' = 0
    /\ bossSpawned' = FALSE
    /\ enemiesToSpawn' = 10 + level * 3
    /\ spawnTimer' = 0
    /\ cameraX' = 0
    /\ state' = "playing"
    /\ calls' = <<>>
    /\ fired' = {"nextLevel"}
    /\ UNCHANGED <<score, kills, maxCombo, rank, screenShake, input, nextId,
                   struck, ticks, keyEvents, startTime, elapsedTime, probe>>


\* Game.nextLevel, from the level-complete screen's button
NextLevel ==
    /\ state = "complete"
    /\ level' = level + 1
    /\ player' = Healed([player EXCEPT !.x = 10000])
    /\ enemies' = <<>>
    /\ projectiles' = <<>>
    /\ particles' = <<>>
    /\ portal' = Null
    /\ enemiesSpawned' = 0
    /\ bossSpawned' = FALSE
    /\ enemiesToSpawn' = 10 + (level + 1) * 3
    /\ spawnTimer' = 0
    /\ cameraX' = 0
    /\ state' = "playing"
    /\ calls' = <<>>
    /\ fired' = {"nextLevel"}
    /\ UNCHANGED <<score, kills, maxCombo, rank, screenShake, input, nextId,
                   struck, ticks, keyEvents, startTime, elapsedTime, probe>>

\* a keydown or keyup of one of the buttons btns, or an arrow key moving the
\* joystick to one of axes (InputHandler.setupKeyboard)
KeyEvent(btns, axes) ==
    /\ keyEvents < MaxKeyEvents
    /\ keyEvents' = keyEvents + 1
    /\ \/ \E b \in btns : input' = [input EXCEPT ![b] = ~@]
       \/ \E a \in axes \ {input.axis} : input' = [input EXCEPT !.axis = a]
    /\ UNCHANGED <<gameVars, nextId, calls, fired, struck, ticks, probe>>

\* the game an update leaves behind
Becomes(g) ==
    /\ state' = g.state
    /\ level' = g.level
    /\ score' = g.score
    /\ kills' = g.kills
    /\ maxCombo' = g.maxCombo
    /\ rank' = g.rank
    /\ spawnTimer' = g.spawnTimer
    /\ enemiesToSpawn' = g.enemiesToSpawn
    /\ enemiesSpawned' = g.enemiesSpawned
    /\ bossSpawned' = g.bossSpawned
    /\ screenShake' = g.screenShake
    /\ cameraX' = g.cameraX
    /\ portal' = g.portal
    /\ player' = g.player
    /\ enemies' = g.enemies
    /\ projectiles' = g.projectiles
    /\ particles' = g.particles
    /\ startTime' = g.startTime
    /\ elapsedTime' = g.elapsedTime
    /\ nextId' = g.nextId
    /\ calls' = g.calls
    /\ fired' = g.fired
    /\ struck' = g.struck

\* one frame: Game.loop calls Game.update
Update(maxTicks) ==
    /\ ticks < maxTicks
    /\ ticks' = ticks + 1
    /\ \E rnd \in (IF state = "playing" /\ SpawnDue(G) THEN SpawnChoices(level)
                                                       ELSE NoDraws) :
          Becomes(update(G, input, rnd, DateNow(ticks + 1)))
    /\ UNCHANGED <<input, keyEvents, probe>>

(* ---------------- the game from its construction ------------------------- *)
\* new Game(): the menu, with reset()'s values
AtMenu ==
    /\ state = "menu"
    /\ player = FreshPlayer
    /\ enemies = <<>>
    /\ projectiles = <<>>
    /\ particles = <<>>
    /\ portal = Null
    /\ cameraX = 0
    /\ level = 1
    /\ score = 0
    /\ kills = 0
    /\ maxCombo = 0
    /\ rank = "-"
    /\ spawnTimer = 0
    /\ enemiesToSpawn = 10
    /\ enemiesSpawned = 0
    /\ bossSpawned = FALSE
    /\ screenShake = 0
    /\ startTime = 0
    /\ elapsedTime = 0
    /\ input = NoInput
    /\ nextId = 1
    /\ calls = <<>>
    /\ fired = {}
    /\ struck = <<>>
    /\ ticks = 0
    /\ keyEvents = 0

Init == AtMenu /\ probe = Null

\* the keys pressed in the behaviours from the menu
MenuKeys == {"attack", "block", "jump"}
NoAxes == {}

Next ==
    \/ StartGame
    \/ KeyEvent(MenuKeys, NoAxes)
    \/ Update(MaxTicks)

Spec == Init /\ [][Next]_vars

(* ---------------- the game in mid-session -------------------------------- *)
\* The player standing on the ground at x, with the given health
Standing(x, health) ==
    [NewPlayer(x, GROUND_Y - 5000) EXCEPT !.grounded = TRUE, !.health = health]

\* The player with a combo running: `combo` hits landed, the latest of them
\* COMBO_TIMEOUT - timer ticks ago, and the punch chain at `punches`
InCombo(p, combo, timer, punches) ==
    [p EXCEPT !.combo = combo, !.comboTimer = timer, !.punchCount = punches]

\* The player 148 updates after a special fired at full energy, no hit
\* landed since: what 148 regenerations make of 70, the double
\* 99.60000000000042
Rested(p) == [p EXCEPT !.energy = 9960, !.energyErr = 757760]

\* enemiesToSpawn at a level: reset's 10 at level 1, nextLevel's 10 + 3 * level
Quota(lv) == IF lv = 1 THEN 10 ELSE 10 + lv * 3

\* how many enemies the spawn director has created by the end of level lv
SpawnedThrough(lv) ==
    IF lv = 1 THEN 10 ELSE IF lv = 2 THEN 26 ELSE 45

\* A session that has reached level lv with `spawned` of the level's quota
\* spawned, `fallen` enemies removed so far, `points` scored, the enemies
\* `left` still standing, a minute of play per level behind it
Scored(lv, spawned, fallen, left, p, points) ==
    /\ state = "playing"
    /\ level = lv
    /\ enemiesToSpawn = Quota(lv)
    /\ enemiesSpawned = spawned
    /\ enemies = left
    /\ kills = fallen
    /\ score = points
    /\ maxCombo = Max(1, p.combo)
    /\ rank = IF lv = 1 THEN "-" ELSE "C"
    /\ player = p
    /\ cameraX = clamp(p.x - CanvasWidth \div 3, 0, LEVEL_LENGTH - CanvasWidth)
    /\ projectiles = <<>>
    /\ particles = <<>>
    /\ screenShake = 0
    /\ portal = Null
    /\ startTime = -(60000 * lv)
    /\ elapsedTime = 60000 * lv
    /\ input = NoInput
    /\ calls = <<>>
    /\ fired = {}
    /\ struck = <<>>
    /\ ticks = 0
    /\ keyEvents = 0
    /\ probe = Null

\* The same, each enemy removed a basic zombie felled with two kicks at
\* combo 1 (250 points) and the player's running combo scored on top
MidLevel(lv, spawned, fallen, left, p) ==
    Scored(lv, spawned, fallen, left, p,
           250 * fallen + 50 * p.combo * (p.combo + 1))

\* A boss some way into its fight: on the ground, facing the player on its
\* left, in the phase its health has brought it to
BossAt(id, x, health, smashIn) ==
    [NewBoss(id, x, GROUND_Y - 8000) EXCEPT
        !.grounded = TRUE, !.facing = -1, !.health = health,
        !.specialCooldown = smashIn,
        !.phase = IF health * 2 < 300 THEN 2 ELSE 1,
        !.speed = IF health * 2 < 300 THEN 100 ELSE 60]

\* A zombie that has walked up to the player on its left
ZombieAt(id, x, type, health, cooldown) ==
    [NewZombie(id, x, GROUND_Y - 5000, type) EXCEPT
        !.grounded = TRUE, !.facing = -1, !.health = health,
        !.attackCooldown = cooldown]

\* the combos the player may be in when the boss fight is taken up: one hit
\* about to lapse, with the punch chain at its end, and the longest combo
\* there is, with the chain in its middle
ComboCases ==
    {[combo |-> 1, timer |-> 2, punches |-> 3],
     [combo |-> MAX_COMBO, timer |-> 40, punches |-> 2]}

\* Level 3 at its end.  Either the quota is spawned and cleared and the boss
\* fight is under way, the boss 40 px to the player's right, the player out
\* of combo or in one; or the last zombie of the quota, a ranged one, stands
\* 30 px to the player's right, the player's last special 148 updates back
InitBoss ==
    \/ \E c \in ComboCases :
        /\ MidLevel(3, 19, 45, <<BossAt(46, 104000, 160, 10)>>,
                    InCombo(Standing(100000, 100), c.combo, c.timer,
                            c.punches))
        /\ bossSpawned = TRUE
        /\ spawnTimer = -1
        /\ nextId = 47
    \/ \E hp \in {100, 20}, hb \in {15, 160}, sc \in {0, 10} :
        /\ MidLevel(3, 19, 45, <<BossAt(46, 104000, hb, sc)>>,
                    Standing(100000, hp))
        /\ bossSpawned = TRUE
        /\ spawnTimer = -1
        /\ nextId = 47
    \/ \E cd \in {0, 3} :
        /\ MidLevel(3, 19, 44, <<ZombieAt(45, 103000, "ranged", 25, cd)>>,
                    Rested(Standing(100000, 100)))
        /\ bossSpawned = FALSE
        /\ spawnTimer = -1
        /\ nextId = 46

\* the keys pressed in the boss fight
BossKeys == {"attack", "dash", "kick", "special", "jump", "block"}

NextBoss ==
    \/ KeyEvent(BossKeys, NoAxes)
    \/ Update(BossTicks)

SpecBoss == InitBoss /\ [][NextBoss]_vars

\* A level near its end: the last zombie of the quota in front of the
\* player, or the field clear with one enemy still to spawn, or the field
\* clear and the player 50 px short of where the portal stands
LevelEnd(lv) ==
        /\ bossSpawned = FALSE
        /\ nextId = SpawnedThrough(lv) + 1
        /\ \/ \E hp \in {100, 10} :
                /\ MidLevel(lv, Quota(lv), SpawnedThrough(lv) - 1,
                            <<ZombieAt(SpawnedThrough(lv), 104000, "basic", 15, 5)>>,
                            Standing(100000, hp))
                /\ spawnTimer = -1
           \/ /\ MidLevel(lv, Quota(lv) - 1, SpawnedThrough(lv) - 1, <<>>,
                          Standing(100000, 100))
              /\ spawnTimer = 2
           \/ /\ MidLevel(lv, Quota(lv), SpawnedThrough(lv), <<>>,
                          Standing(280000, 80))
              /\ spawnTimer = -1

\* Levels 1 to 3 near their end
InitLevel == \E lv \in {1, 2, 3} : LevelEnd(lv)

\* the keys pressed at a level's end
LevelKeys == {"attack"}
LevelAxes == {0, 1}

NextLevelEnd ==
    \/ KeyEvent(LevelKeys, LevelAxes)
    \/ Update(LevelTicks)
    \/ NextLevel
    \/ Restart

SpecLevel == InitLevel /\ [][NextLevelEnd]_vars

\* Level 1 near its end, with the buttons of the pause, game-over and
\* level-complete screens
InitScreens == LevelEnd(1)

NextScreens ==
    \/ KeyEvent(LevelKeys, LevelAxes)
    \/ Update(LevelTicks)
    \/ NextLevel
    \/ Restart
    \/ Pause
    \/ Resume
    \/ ShowMenu

SpecScreens == InitScreens /\ [][NextScreens]_vars

(* ---------------- a level's end, score by score ------------------------------ *)
\* updates per behaviour at the portal
RankTicks == 8

\* The scores a level is ended with, about the rank's thresholds: 50 for
\* each of the level's kills and 100 for each hit landed at combo 1, no
\* fewer hits than kills
RankScores(lv) ==
    IF lv = 1 THEN {1500, 1600, 2300, 2400, 2900, 3000}
    ELSE {3900, 4700, 4800, 5900, 6000}

\* where the player stands: short of the portal's place, and on it
RankSpots == {280000, 286000}

\* Levels 1 and 2 with every enemy of the quota removed, the last of them
\* with the second hit of a combo 20 updates ago
InitRank ==
    \E lv \in {1, 2} : \E points \in RankScores(lv) : \E x \in RankSpots :
        /\ Scored(lv, Quota(lv), SpawnedThrough(lv), <<>>,
                  InCombo(Rested(Standing(x, 80)), 2, 40, 2), points)
        /\ bossSpawned = FALSE
        /\ spawnTimer = -1
        /\ nextId = SpawnedThrough(lv) + 1

NextRank ==
    \/ KeyEvent(LevelKeys, LevelAxes)
    \/ Update(RankTicks)
    \/ NextLevel

SpecRank == InitRank /\ [][NextRank]_vars

(* ---------------- an attack box kept by a block -------------------------------- *)
\* updates per behaviour: an invincibility window and a few more
GuardTicks == 34

\* Level 1 with the last zombie of the quota, unhurt, in front of the player
InitGuard ==
    /\ MidLevel(1, Quota(1), SpawnedThrough(1) - 1,
                <<ZombieAt(SpawnedThrough(1), 104000, "basic", 30, 5)>>,
                Standing(100000, 100))
    /\ bossSpawned = FALSE
    /\ spawnTimer = -1
    /\ nextId = SpawnedThrough(1) + 1

\* the keys pressed
GuardKeys == {"attack", "block"}

NextGuard ==
    \/ KeyEvent(GuardKeys, NoAxes)
    \/ Update(GuardTicks)

SpecGuard == InitGuard /\ [][NextGuard]_vars

(* ---------------- a boss fought to its end -------------------------------------- *)
\* updates per behaviour: four attacks an invincibility window apart
FellTicks == 93

\* The boss at half its health, still in its first phase, the player unhurt
\* in front of it
InitFell ==
    /\ MidLevel(3, 19, 45, <<BossAt(46, 104000, 150, 10)>>,
                Standing(100000, 100))
    /\ bossSpawned = TRUE
    /\ spawnTimer = -1
    /\ nextId = 47

\* the key pressed
FellKeys == {"special"}

NextFell ==
    \/ KeyEvent(FellKeys, NoAxes)
    \/ Update(FellTicks)

SpecFell == InitFell /\ [][NextFell]_vars

(* ---------------- Utils.rectIntersect on its own ---------------------------- *)
\* the rectangles tried: corners on a grid of GridMax, sides up to MaxSide
GridMax == 3
MaxSide == 2
Rects == [x : 0..GridMax, y : 0..GridMax, w : 1..MaxSide, h : 1..MaxSide]

\* two rectangles about to be tested
InitRect ==
    /\ AtMenu
    /\ \E r1 \in Rects, r2 \in Rects :
          probe = [r1 |-> r1, r2 |-> r2, called |-> FALSE, result |-> FALSE]

\* the call of Utils.rectIntersect(r1, r2)
Intersect ==
    /\ ~probe.called
    /\ probe' = [probe EXCEPT !.called = TRUE,
                              !.result = rectIntersect(probe.r1, probe.r2)]
    /\ UNCHANGED <<gameVars, input, nextId, calls, fired, struck, ticks,
                   keyEvents>>

SpecRect == InitRect /\ [][Intersect]_vars

(* ---------------- properties ----------------------------------------------- *)
\* one Game.update ran on the playing game
Ticked == state = "playing" /\ ticks' = ticks + 1

\* the boss level's quota is spawned, its boss has been spawned and removed,
\* and no enemy is left
BossDefeated ==
    /\ level % 3 = 0
    /\ enemiesSpawned >= enemiesToSpawn
    /\ bossSpawned
    /\ Len(enemies) = 0

\* C1: on a boss level, once the quota is spawned, the boss spawned and
\* defeated and the enemies collection empty, the portal opens: the update
\* that finds the game so leaves a portal behind (the portal test runs on
\* every update, and nothing else a later update does can make it pass)
C1_PortalAfterBoss == [][(Ticked /\ BossDefeated) => portal' # Null]_vars

\* a step in which the portal is created
PortalOpens == portal = Null /\ portal' # Null

\* C2: a portal is created only by an update that finds the quota spawned
\* and the enemies collection empty (and leaves them so), on a boss level
\* only with the boss spawned and gone; once created it stays as it is until
\* the level ends, so a level sees at most one; and whenever a portal exists
\* the enemies collection is empty
C2_PortalOnce ==
    /\ [](portal # Null => Len(enemies) = 0)
    /\ [][/\ PortalOpens =>
               /\ Ticked
               /\ enemiesSpawned >= enemiesToSpawn /\ Len(enemies) = 0
               /\ enemiesSpawned' >= enemiesToSpawn' /\ Len(enemies') = 0
               /\ level % 3 = 0 => bossSpawned
          /\ (portal # Null /\ portal' # portal) =>
               /\ portal' = Null
               /\ level' # level \/ player' = FreshPlayer]_vars

\* an update has just opened the portal on a cleared level
C2_Witness ==
    /\ "portal" \in fired
    /\ portal # Null
    /\ enemiesSpawned >= enemiesToSpawn
    /\ Len(enemies) = 0

\* the actors of the game: the player and every enemy in the collection
Actors == {player} \cup {enemies[i] : i \in DOMAIN enemies}

\* C3: every actor's health is at most its maxHealth; an actor whose health
\* is 0 or less is dead; and a dead actor is dead in every later state it is
\* part of (the player until reset replaces it with a new Player, an enemy
\* until the collection drops it)
C3_HealthAndDeath ==
    /\ [](\A a \in Actors : a.health <= a.maxHealth /\ (a.health <= 0 => a.dead))
    /\ [][/\ player.dead => player'.dead \/ player' = FreshPlayer
          /\ \A i \in DOMAIN enemies : \A j \in DOMAIN enemies' :
                (enemies[i].dead /\ enemies'[j].id = enemies[i].id)
                    => enemies'[j].dead]_vars

\* nextLevel has just healed the player, and the heal stopped at maxHealth
C3_Witness ==
    /\ "nextLevel" \in fired
    /\ player.health = player.maxHealth
    /\ ~player.dead

\* C4: a takeDamage call on an actor whose invincibility countdown is above
\* 0 returns false and leaves the actor exactly as it was (health, vx, vy,
\* invincibility, dead flag, state and every other field)
C4_InvincibleNoOp ==
    \A i \in DOMAIN calls :
        calls[i].before.invincible > 0 =>
            ~calls[i].ok /\ calls[i].after = calls[i].before

\* the player's attack box has reached an enemy still invincible from the
\* hit before
C4_Witness ==
    \E i \in DOMAIN calls :
        /\ calls[i].who = "enemy"
        /\ calls[i].before.invincible > 0
        /\ ~calls[i].before.dead

\* C5: a takeDamage call on an actor already dead returns false and leaves
\* it as it was, and a dead actor's health never changes again
C5_DeadNoOp ==
    /\ [](\A i \in DOMAIN calls :
            calls[i].before.dead =>
                ~calls[i].ok /\ calls[i].after = calls[i].before)
    /\ [][/\ (player.dead /\ player' # FreshPlayer)
                => player'.health = player.health
          /\ \A i \in DOMAIN enemies : \A j \in DOMAIN enemies' :
                (enemies[i].dead /\ enemies'[j].id = enemies[i].id)
                    => enemies'[j].health = enemies[i].health]_vars

\* the boss's ground-smash has called takeDamage on the player its melee
\* attack killed earlier in the same update
C5_Witness ==
    \E i \in DOMAIN calls :
        /\ calls[i].who = "player"
        /\ calls[i].before.dead
        /\ calls[i].before.health <= 0

\* C6: every takeDamage call on the player made while the dashing flag is
\* set returns false
C6_DashNoDamage ==
    \A i \in DOMAIN calls :
        (calls[i].who = "player" /\ calls[i].before.dashing) => ~calls[i].ok

\* C7: the player's attackBox is non-null only if attackTimer is above 0
C7_AttackBoxWindow == player.attackBox # Null => player.attackTimer > 0

\* C8: an update that finds the player grounded, not dashing, not blocking
\* (flag clear, block not held), with attackTimer 0 and jump pressed performs
\* the jump
C8_JumpPerformed ==
    [][(/\ Ticked
        /\ player.grounded /\ ~player.dashing
        /\ ~player.blocking /\ ~input.block
        /\ player.attackTimer = 0
        /\ input.jump)
       => "jump" \in fired']_vars

\* a live ranged zombie whose attack cooldown has elapsed and whose
\* horizontal distance to the player, as its update sees it, is below its
\* attack range
RangedReady(z) ==
    /\ z.type = "ranged"
    /\ ~z.dead
    /\ z.attackCooldown <= 0
    /\ Abs(player'.x - z.x) < z.attackRange

\* C9: an update in which a ranged zombie is ready as above adds an enemy
\* projectile (rangedAttack runs), whatever the melee branch did
C9_RangedShoots ==
    [][(Ticked /\ \E i \in DOMAIN enemies : RangedReady(enemies[i]))
       => "rangedAttack" \in fired']_vars

\* C10: when a phase-2 boss has executed its ground-smash in the latest
\* update, the two basic zombies it created are in the enemies collection
C10_MinionsJoin ==
    "minions" \in fired =>
        \E i, j \in DOMAIN enemies :
            /\ enemies[i].id = nextId - 2 /\ enemies[i].type = "basic"
            /\ enemies[j].id = nextId - 1 /\ enemies[j].type = "basic"

\* C11: the enemies spawned at a level never exceed the level's quota, and
\* spawnEnemy called with the quota met leaves the game as it is, whatever
\* its random draws
C11_SpawnQuota ==
    /\ enemiesSpawned <= enemiesToSpawn
    /\ enemiesSpawned >= enemiesToSpawn =>
           \A rnd \in SpawnChoices(level) : spawnEnemy(G, rnd) = G

\* the update just run spawned the enemy that fills the quota
C11_Witness ==
    /\ "spawnEnemy" \in fired
    /\ enemiesSpawned = enemiesToSpawn
    /\ Len(enemies) > 0

\* the bosses among the enemies
Bosses(es) == {i \in 1..Len(es) : es[i].type = "boss"}

\* C12: an update spawns the boss only at a level that is a multiple of 3,
\* only if no boss was spawned at this level before, and only when it began
\* with the quota spawned and no enemy on the field; once spawned the boss
\* stays spawned through every update, so that a level sees one boss at most,
\* and a level that is no multiple of 3 sees none
C12_BossSpawn ==
    [][/\ ticks' = ticks + 1 /\ "spawnBoss" \in fired' =>
              /\ level % 3 = 0
              /\ ~bossSpawned
              /\ enemiesSpawned >= enemiesToSpawn
              /\ Len(enemies) = 0
              /\ bossSpawned'
              /\ Cardinality(Bosses(enemies')) = 1
       /\ ticks' = ticks + 1 /\ bossSpawned => bossSpawned'
       /\ Cardinality(Bosses(enemies')) <= 1
       /\ level' % 3 # 0 => ~bossSpawned' /\ Bosses(enemies') = {}
      ]_vars

\* the update just run spawned the boss
C12_Witness ==
    /\ "spawnBoss" \in fired
    /\ level % 3 = 0
    /\ bossSpawned
    /\ Bosses(enemies) # {}

\* C13: an update of the playing game that leaves the player with no health
\* leaves the game over, and an update of the game that is over changes none
\* of the game's fields: the game stays as it is until it is restarted
C13_GameOver ==
    [][/\ Ticked /\ player'.health <= 0 => state' = "gameover"
       /\ state = "gameover" /\ ticks' = ticks + 1 => UNCHANGED gameVars
       /\ state = "gameover" /\ state' # "gameover" => "reset" \in fired'
      ]_vars

\* the player died in the update just run and the game is over
C13_Witness ==
    /\ state = "gameover"
    /\ player.health <= 0
    /\ "gameOver" \in fired

\* C14: Game.update called while the game is not playing (at the menu,
\* paused, over or with the level complete) changes none of the game's
\* fields, the elapsed time among them
C14_IdleUpdate ==
    [][state # "playing" /\ ticks' = ticks + 1 => UNCHANGED gameVars]_vars

\* frames have run on the paused game: the clock is ahead of the elapsed
\* time
C14_Witness ==
    /\ state = "paused"
    /\ ticks > 0
    /\ elapsedTime < DateNow(ticks) - startTime

\* the interiors of two rectangles overlap: some open square of the plane
\* lies inside both
InteriorsOverlap(r1, r2) ==
    /\ r1.x < r2.x + r2.w
    /\ r2.x < r1.x + r1.w
    /\ r1.y < r2.y + r2.h
    /\ r2.y < r1.y + r1.h

\* C15: rectIntersect is true exactly when the interiors of the two
\* rectangles overlap, and so false for rectangles that share only an edge
C15_InteriorsOnly ==
    probe # Null /\ probe.called =>
        (probe.result <=> InteriorsOverlap(probe.r1, probe.r2))

\* C16: an update of the playing game that leaves the player's comboTimer
\* at 0 leaves the combo at 0
C16_ComboLapses ==
    [][Ticked /\ player'.comboTimer = 0 => player'.combo = 0]_vars

\* C17: the combo is between 0 and MAX_COMBO in every state, and addCombo
\* called at MAX_COMBO leaves the combo there and sets the decay timer to
\* COMBO_TIMEOUT all the same
C17_ComboCapped ==
    /\ player.combo >= 0
    /\ player.combo <= MAX_COMBO
    /\ player.combo = MAX_COMBO =>
           /\ addCombo(player).combo = MAX_COMBO
           /\ addCombo(player).comboTimer = COMBO_TIMEOUT

\* a hit landed in the update just run with the combo at MAX_COMBO
C17_Witness ==
    /\ "zombieHit" \in fired
    /\ player.combo = MAX_COMBO
    /\ player.comboTimer = COMBO_TIMEOUT

\* the input with no attack asked for
NoRequest(in) ==
    [in EXCEPT !.attack = FALSE, !.kick = FALSE, !.special = FALSE]

\* the fields an attack sets
AttackFields(p) ==
    <<p.attackBox, p.attackTimer, p.punchCount, p.energy, p.energyErr>>

\* C18: an update fires one attack at most, and fires none while the attack
\* timer, decremented, is still above 0: the update then leaves attackBox,
\* attackTimer, punchCount and energy as it would with no attack asked for
C18_OneAttack ==
    [][Ticked =>
          /\ Cardinality(fired' \cap AttackNames) <= 1
          /\ player.attackTimer > 1 =>
                 /\ fired' \cap AttackNames = {}
                 /\ AttackFields(PlayerUpdate(player, input).p)
                      = AttackFields(PlayerUpdate(player, NoRequest(input)).p)
      ]_vars

\* punch and kick were both asked for and the update just run fired the
\* punch alone
C18_Witness ==
    /\ input.attack
    /\ input.kick
    /\ "punch" \in fired
    /\ "kick" \notin fired
    /\ player.attackTimer = 15

\* what one step makes of a boss: b before it, c after it
PhaseStep(b, c) ==
    /\ b.phase = 2 => c.phase = 2
    /\ c.phase # b.phase =>
           /\ b.phase = 1
           /\ c.phase = 2
           /\ b.health * 2 < b.maxHealth
           /\ b.speed = 60
           /\ c.speed = 100

\* C19: a boss's phase changes only from 1 to 2 and only with its health
\* below half of maxHealth, it never leaves phase 2, and the transition
\* takes the speed from 0.6 to 1 and sets attackCooldown to 0
C19_PhaseOnce ==
    [][/\ \A i \in Bosses(enemies), j \in Bosses(enemies') :
              enemies[i].id = enemies'[j].id =>
                  PhaseStep(enemies[i], enemies'[j])
       /\ \A i \in Bosses(enemies) :
              BossPhase(enemies[i]).phase # enemies[i].phase =>
                  /\ BossPhase(enemies[i]).attackCooldown = 0
                  /\ BossPhase(BossPhase(enemies[i])) = BossPhase(enemies[i])
      ]_vars

\* the boss taken up with more than half of its health is in phase 2
C19_Witness ==
    \E i \in Bosses(enemies) :
        /\ enemies[i].phase = 2
        /\ enemies[i].speed = 100
        /\ enemies[i].health > 15

\* C20: when an update takes a living phase-1 boss from at least half of
\* its health to less than half, the update leaves the boss in phase 2 with
\* its speed changed
C20_PhaseSameTick ==
    [][Ticked =>
          \A i \in Bosses(enemies), j \in Bosses(enemies') :
              /\ enemies[i].id = enemies'[j].id
              /\ enemies[i].phase = 1
              /\ ~enemies[i].dead
              /\ enemies[i].health * 2 >= enemies[i].maxHealth
              /\ enemies'[j].health * 2 < enemies'[j].maxHealth
              /\ ~enemies'[j].dead
              => /\ enemies'[j].phase = 2
                 /\ enemies'[j].speed # enemies[i].speed
      ]_vars

\* C21: on a level that is no multiple of 3, with the quota spawned, the
\* update that follows the one in which the last enemy on the field was
\* killed (and so begins with nothing but the dead on the field) opens the
\* portal, at (LEVEL_LENGTH - 150, GROUND_Y - 80)
C21_PortalNextTick ==
    [][/\ Ticked
       /\ level % 3 # 0
       /\ enemiesSpawned >= enemiesToSpawn
       /\ Len(enemies) > 0
       /\ \A i \in 1..Len(enemies) : enemies[i].dead
       /\ portal = Null
       => /\ portal' # Null
          /\ portal'.x = LEVEL_LENGTH - 15000
          /\ portal'.y = GROUND_Y - 8000
      ]_vars

\* the distance between the player at px and the enemy spawnEnemy places
SpawnGap(px, rnd) == Abs(SpawnX(px, rnd) - px)

\* C22: whenever an update spawns an enemy, whatever the random draws, the
\* enemy is placed at least 400 px from where the player stands when
\* spawnEnemy runs (after the player's own update)
C22_SpawnBuffer ==
    [][Ticked /\ SpawnDue(G) =>
          \A rnd \in SpawnChoices(level) :
              SpawnGap(PlayerUpdate(player, input).p.x, rnd) >= 40000
      ]_vars

\* C23: when the one zombie on the field lands its melee attack, the player
\* loses floor(damage * 0.3) health if the blocking flag is set (3 of a
\* basic zombie's 10) and the full damage if it is not
C23_BlockedHit ==
    [][Ticked /\ Len(enemies') = 1 /\ "hit" \in fired' =>
          /\ player'.blocking =>
                 player'.health =
                     player.health - (enemies'[1].damage * 3) \div 10
          /\ ~player'.blocking =>
                 player'.health = player.health - enemies'[1].damage
      ]_vars

\* a blocking player has just taken 3 damage from a basic zombie
C23_Witness ==
    /\ "hit" \in fired
    /\ player.blocking
    /\ Len(enemies) = 1
    /\ enemies[1].type = "basic"
    /\ player.health = 97

\* the chain position after n: 1, 2, 3, 1, ...
NextChain(n) == IF n = 3 THEN 1 ELSE n + 1

\* the player's punch from chain position n
PunchFrom(n) == punch([player EXCEPT !.punchCount = n])

\* C24: a punch moves the chain counter on in the cycle 1, 2, 3, 1 and its
\* hitbox carries damage 10 + 5 * chain and knockback 5 * facing; no other
\* update changes the counter; and an enemy that loses health in an update
\* loses the hitbox's damage and is left with the hitbox's knockback as its
\* vx (15 and 5 * facing for a chain-1 punch)
C24_PunchChain ==
    [][Ticked =>
          /\ \A n \in 0..3 :
                 /\ PunchFrom(n).punchCount = NextChain(n)
                 /\ PunchFrom(n).attackBox.damage = 10 + 5 * NextChain(n)
                 /\ PunchFrom(n).attackBox.knockback = 500 * player.facing
          /\ "punch" \in fired' =>
                 /\ player'.punchCount = NextChain(player.punchCount)
                 /\ player'.attackBox.damage = 10 + 5 * player'.punchCount
                 /\ player'.attackBox.knockback = 500 * player'.facing
          /\ "punch" \notin fired' => player'.punchCount = player.punchCount
          /\ \A i \in 1..Len(enemies), j \in 1..Len(enemies') :
                 /\ enemies[i].id = enemies'[j].id
                 /\ enemies'[j].health < enemies[i].health
                 => /\ player'.attackBox # Null
                    /\ enemies'[j].health
                         = enemies[i].health - player'.attackBox.damage
                    /\ enemies'[j].vx = player'.attackBox.knockback
      ]_vars

\* a chain-1 punch to the right has just landed on the zombie next to the
\* player: 15 of its 25 health gone, vx = 5
C24_Witness ==
    /\ "punch" \in fired
    /\ "zombieHit" \in fired
    /\ player.punchCount = 1
    /\ player.facing = 1
    /\ \E i \in 1..Len(enemies) :
           /\ enemies[i].type = "ranged"
           /\ enemies[i].health = 10
           /\ enemies[i].vx = 500

\* C25: the player's energy is at least 0 and at most maxEnergy in every
\* state
C25_EnergyRange ==
    /\ AtLeast(player.energy, player.energyErr, 0)
    /\ \/ player.energy < player.maxEnergy
       \/ player.energy = player.maxEnergy /\ player.energyErr <= 0

\* what Player.update can start
Startable == AttackNames \cup {"jump", "dash"}

\* the input with block alone held
BlockOnly == [NoInput EXCEPT !.block = TRUE]

\* C26: an update that begins with block held and the player on the ground
\* and not dashing starts no attack, jump or dash and applies no movement:
\* the player's update leaves what it would leave with block alone held;
\* facing, attackBox and punchCount stay, attackTimer and energy only run as
\* every update runs them, and vx is halved and then decayed by the friction
C26_Blocking ==
    [][Ticked /\ input.block /\ player.grounded /\ ~player.dashing =>
          /\ fired' \cap Startable = {}
          /\ PlayerUpdate(player, input) = PlayerUpdate(player, BlockOnly)
          /\ player'.blocking
          /\ player'.facing = player.facing
          /\ player'.attackBox = player.attackBox
          /\ player'.punchCount = player.punchCount
          /\ player'.attackTimer = PlayerTimers(player).attackTimer
          /\ PlayerUpdate(player, input).p.energy = PlayerTimers(player).energy
          /\ PlayerUpdate(player, input).p.vx
               = Friction(Scale(player.vx, 5, 10))
      ]_vars

\* the update just run found block held together with attack, on a player
\* who stood on the ground, and fired nothing
C26_Witness ==
    /\ ticks > 0
    /\ state = "playing"
    /\ input.block
    /\ input.attack
    /\ player.blocking
    /\ player.state = "block"
    /\ player.attackTimer = 0
    /\ fired \cap Startable = {}

\* the pool of enemy types a level draws from
Pool(lv) ==
    IF lv = 1 THEN {"basic", "fast"}
    ELSE IF lv = 2 THEN {"basic", "fast", "tank"}
    ELSE {"basic", "fast", "tank", "ranged"}

\* C27: the enemy an update's spawnEnemy creates is of a type in the pool
\* of the level: no tank at level 1, no ranged zombie at levels 1 and 2
C27_SpawnPool ==
    [][Ticked /\ "spawnEnemy" \in fired' =>
          \A j \in 1..Len(enemies') :
              enemies'[j].id = nextId => enemies'[j].type \in Pool(level)
      ]_vars

\* the update just run spawned a tank at level 2
C27_Witness ==
    /\ "spawnEnemy" \in fired
    /\ level = 2
    /\ \E j \in 1..Len(enemies) :
           enemies[j].id = nextId - 1 /\ enemies[j].type = "tank"

\* C28: a ranged zombie has a longer attack range than the 40 of the basic,
\* fast and tank zombies, and no zombie's maxHealth, damage, size,
\* detection range or attack range changes while it is in the game
C28_RangedReach ==
    /\ \A i \in 1..Len(enemies) :
           /\ enemies[i].type = "ranged" => enemies[i].attackRange > 4000
           /\ enemies[i].type \in {"basic", "fast", "tank"} =>
                  enemies[i].attackRange = 4000
    /\ \A i \in 1..Len(enemies) :
           enemies[i].type # "boss" =>
               LET z == NewZombie(enemies[i].id, 0, 0, enemies[i].type)
               IN  /\ enemies[i].maxHealth = z.maxHealth
                   /\ enemies[i].damage = z.damage
                   /\ enemies[i].w = z.w
                   /\ enemies[i].h = z.h
                   /\ enemies[i].detectRange = z.detectRange
                   /\ enemies[i].speed = z.speed

\* the rank of a score at a level: 1.5, 1.2 and 0.8 times 2000 * level are
\* 3000, 2400 and 1600 times the level
RankOf(points, lv) ==
    IF points >= 3000 * lv THEN "S"
    ELSE IF points >= 2400 * lv THEN "A"
    ELSE IF points >= 1600 * lv THEN "B"
    ELSE "C"

\* C29: an update that leaves the player inside the portal calls
\* levelComplete, and levelComplete leaves the state complete and the rank
\* S, A, B or C by the score against 1.5, 1.2 and 0.8 times 2000 * level
C29_RankAtPortal ==
    [][/\ Ticked /\ portal' # Null
          /\ rectIntersect(getBounds(player'), portal')
          => "levelComplete" \in fired'
       /\ Ticked /\ "levelComplete" \in fired'
          => /\ state' = "complete"
             /\ rank' = RankOf(score, level)
             /\ score' = score /\ level' = level
      ]_vars

\* the player walked into the portal of level 1 with 2400 points: rank A
C29_Witness ==
    /\ "levelComplete" \in fired
    /\ state = "complete"
    /\ ticks > 1
    /\ level = 1
    /\ score = 2400
    /\ rank = "A"

\* C30: nextLevel adds 1 to the level, empties enemies, projectiles and
\* particles, clears the portal, sets enemiesSpawned 0, bossSpawned false,
\* spawnTimer 0, cameraX 0, enemiesToSpawn 10 + 3 * the new level and the
\* state playing, heals the player by 30 up to maxHealth, and leaves score,
\* kills, maxCombo and the player's other fields but x as they were
C30_NextLevel ==
    [][state = "complete" /\ state' = "playing" =>
          /\ level' = level + 1
          /\ enemies' = <<>> /\ projectiles' = <<>> /\ particles' = <<>>
          /\ portal' = Null
          /\ enemiesSpawned' = 0
          /\ bossSpawned' = FALSE
          /\ spawnTimer' = 0
          /\ cameraX' = 0
          /\ enemiesToSpawn' = 10 + 3 * level'
          /\ player'.health = Min(player.health + 30, player.maxHealth)
          /\ score' = score /\ kills' = kills /\ maxCombo' = maxCombo
          /\ player'.energy = player.energy
          /\ player'.energyErr = player.energyErr
          /\ player'.combo = player.combo
          /\ player' = [player EXCEPT !.x = player'.x,
                                      !.health = player'.health]
      ]_vars

\* nextLevel has just taken the game to level 2, the player at full health
\* from 80 with the combo and the energy of the level before
C30_Witness ==
    /\ fired = {"nextLevel"}
    /\ state = "playing"
    /\ level = 2
    /\ enemiesToSpawn = 16
    /\ player.health = player.maxHealth
    /\ player.combo = 2
    /\ player.energy < player.maxEnergy
    /\ score = 2400

\* the time the game has been played is what the clock shows now
OnTheClock == elapsedTime = DateNow(ticks) - startTime

\* C31: time that passes while the game is paused is not counted: a resume
\* leaves elapsedTime as the last update before the pause left it and sets
\* the clock by it, frames that pass while paused leave it alone, and the
\* update after adds to it only the frame passed since
C31_PausedTime ==
    [][/\ state = "paused" /\ state' = "playing"
          => elapsedTime' = elapsedTime /\ OnTheClock'
       /\ state = "paused" /\ state' = "paused"
          => elapsedTime' = elapsedTime
       /\ Ticked /\ OnTheClock
          => elapsedTime' = elapsedTime + FrameMs
      ]_vars

\* level 1, a minute in: two updates played and two frames paused; the
\* elapsed time is a minute and two frames at the fourth frame
C31_Witness ==
    /\ state = "playing"
    /\ ticks = 4
    /\ spawnTimer = -3
    /\ elapsedTime = 60000 + 2 * FrameMs
    /\ startTime = -60000 + 2 * FrameMs

\* the states a punch, a kick, a jump kick or a special leaves the player in
Striking == {"punch", "kick"}

\* C32: an update that finds the player in the punch or kick state on the
\* ground, not dashing, not blocking, the attack's timer at 0, and fires no
\* attack, takes the player out of that state: to idle with the axis within
\* the deadzone and to walk with it beyond, when no jump is asked for
C32_AttackStateEnds ==
    [][(/\ Ticked
        /\ player.state \in Striking
        /\ player.attackTimer = 0
        /\ player.grounded /\ ~player.dashing /\ ~input.block
        /\ fired' \cap AttackNames = {})
       => /\ player'.state \notin Striking
          /\ ~input.jump =>
                 player'.state = IF Abs(input.axis) * 10 > 1 THEN "walk"
                                                             ELSE "idle"
      ]_vars

\* the enemies of this state that the next state no longer holds
Gone ==
    {i \in 1..Len(enemies) :
        \A j \in 1..Len(enemies') : enemies'[j].id # enemies[i].id}

\* C33: an update removes the enemies that were dead when it began and no
\* other (an enemy it kills stays, dead, to the end of the update), adds 1
\* to kills for each enemy removed and, when no hit lands, 50 to the score
\* for each, and calls takeDamage on no dead enemy
C33_DeadLeaveNextTick ==
    [][Ticked =>
          /\ \A i \in 1..Len(enemies) : (i \in Gone) = enemies[i].dead
          /\ kills' = kills + Cardinality(Gone)
          /\ "zombieHit" \notin fired' => score' = score + 50 * Cardinality(Gone)
          /\ \A c \in 1..Len(calls') :
                 calls'[c].who = "enemy" => ~calls'[c].before.dead
      ]_vars

\* the update just run removed the one enemy, killed by a punch in the
\* update before: 50 points and a kill more than the nine of the snapshot,
\* plus the 100 of the punch that killed it
C33_Witness ==
    /\ state = "playing"
    /\ ticks > 1
    /\ level = 1
    /\ enemies = <<>>
    /\ enemiesSpawned = enemiesToSpawn
    /\ kills = SpawnedThrough(1)
    /\ score = 250 * (SpawnedThrough(1) - 1) + 100 + 50
    /\ player.attackBox # Null

\* C34: one attackBox damages an enemy at most once: no enemy is twice
\* among those the player's attackBox has damaged
C34_OneHitPerBox ==
    \A i \in 1..Len(struck) : \A j \in 1..Len(struck) :
        struck[i] = struck[j] => i = j

C36_BossDiesInPhaseTwo ==
    \A i \in 1..Len(enemies) :
        enemies[i].type = "boss" /\ enemies[i].dead => enemies[i].phase = 2

\* the boss met at half its health in phase 1 has been brought down by four
\* specials: it lies dead, in phase 2
C36_Witness ==
    /\ ticks > 3 * INVINCIBILITY_DURATION
    /\ \E i \in 1..Len(enemies) :
           /\ enemies[i].type = "boss"
           /\ enemies[i].dead
           /\ enemies[i].health <= 0
           /\ enemies[i].phase = 2

====
